---- MODULE Spec2Model ----
(***************************************************************************)
(* Model of app/main.py: the CRUD handlers for Courses, Users and Projects *)
(* running as concurrent requests over one relational store.               *)
(*                                                                         *)
(* A request is a slot r.  Its handler runs in the steps at which it talks *)
(* to the store: the lookups at the top of the handler, the commit, and    *)
(* the refresh of the committed row.  Everything between two such steps is *)
(* local to the request's own session and is folded into the step before.  *)
(*                                                                         *)
(* The three router sections share no table, except that the projects      *)
(* section reads the users; a run addresses one section (workload), the    *)
(* projects section together with add_user and delete_user.                *)
(***************************************************************************)
EXTENDS Integers, FiniteSets, TLC

\* ---------------------------------------------------------------- bounds
\* Largest id each table gives out.
MaxCourses == 2
MaxUsers == 2
MaxProjects == 1

\* Requests the server has in hand at a time.
Req == {1, 2}
CourseIds == 1..MaxCourses
UserIds == 1..MaxUsers
ProjectIds == 1..MaxProjects

Codes == {"CS1", "CS2"}
CourseNames == {"Intro", "Algo"}
CreditValues == {5}
Emails == {"a@x.com", "b@x.com"}
StudentIds == {"S1", "S2"}
UserNames == {"A"}
Ages == {20}
ProjectNames == {"P", "Q"}
Descriptions == {"d"}

\* ---------------------------------------------------------------- state
VARIABLES
    workload,   \* the router section the clients of this run address
    db,         \* committed rows: table name -> (id -> row)
    open,       \* requests whose get_db session is open
    pc,         \* per request: the store call its handler makes next
    op,         \* per request: the handler that is running
    target,     \* per request: the id in the path, or the id of the inserted row
    payload,    \* per request: the request body, as model_dump gives it
    assigned,   \* per request: the columns the handler set on its ORM object
    status,     \* per request: HTTP status of the response, 0 while none
    detail      \* per request: detail message of an error response

vars == <<workload, db, open, pc, op, target, payload, assigned, status, detail>>

NoFields == [f \in {} |-> 0]

\* ---------------------------------------------------------------- schemas
\* Create and PUT schemas: every field required.
CourseCreate == [code : Codes, name : CourseNames, credits : CreditValues]
UserCreate == [name : UserNames, email : Emails, age : Ages,
               student_id : StudentIds]
ProjectCreate == [name : ProjectNames, description : Descriptions, owner_id : UserIds]
ProjectCreateForUser == [name : ProjectNames, description : Descriptions]

\* PATCH schemas: every field optional; model_dump(exclude_unset=True)
\* keeps the fields the client sent.
Sparse(full, fields) == {[f \in S |-> b[f]] : b \in full, S \in SUBSET fields}

CourseUpdatePUT == CourseCreate
CourseUpdatePATCH == Sparse(CourseCreate, {"code", "name", "credits"})
UserUpdatePUT == UserCreate
UserUpdatePATCH == Sparse(UserCreate, {"name", "email", "age", "student_id"})
ProjectUpdatePUT == ProjectCreate
ProjectUpdatePATCH == Sparse(ProjectCreate, {"name", "description", "owner_id"})

\* ---------------------------------------------------------------- store
\* The tables of app/models.py as the specification describes them: a
\* system-assigned id, unique Course.code, User.email and User.student_id,
\* and a Project.owner_id the store neither checks nor cascades on.
Tables == {"courses", "users", "projects"}

UniqueCols == [courses |-> {"code"}, users |-> {"email", "student_id"},
               projects |-> {}]

MaxRows == [courses |-> MaxCourses, users |-> MaxUsers, projects |-> MaxProjects]

Max(S) == CHOOSE m \in S : \A x \in S : x <= m

\* Identifier the store assigns to the next inserted row.
NextId(t) == IF DOMAIN db[t] = {} THEN 1 ELSE Max(DOMAIN db[t]) + 1

\* Some row other than `id` already holds the value v has in a unique column
\* among cols.
Duplicate(t, id, v, cols) ==
    \E other \in DOMAIN db[t] \ {id} :
        \E c \in cols \cap UniqueCols[t] : db[t][other][c] = v[c]

Insert(t, id, v) ==
    [db EXCEPT ![t] = [i \in DOMAIN @ \cup {id} |-> IF i = id THEN v ELSE @[i]]]

\* The UPDATE of a flush sets the columns the handler assigned and no other.
Update(t, id, v, cols) ==
    [db EXCEPT ![t][id] = [f \in DOMAIN @ |-> IF f \in cols THEN v[f] ELSE @[f]]]

Delete(t, id) ==
    [db EXCEPT ![t] = [i \in DOMAIN @ \ {id} |-> @[i]]]

\* ---------------------------------------------------------------- handlers
Sections ==
    [courses |-> {"create_course", "get_course", "put_course", "patch_course",
                  "delete_course"},
     users |-> {"add_user", "get_user", "put_user", "patch_user", "delete_user"},
     projects |-> {"create_project", "create_user_project", "get_project_owner",
                   "put_project", "patch_project", "delete_project",
                   "add_user", "delete_user"}]

TableOf ==
    [create_course |-> "courses", get_course |-> "courses",
     put_course |-> "courses", patch_course |-> "courses",
     delete_course |-> "courses",
     create_project |-> "projects", create_user_project |-> "projects",
     get_project_owner |-> "projects", put_project |-> "projects",
     patch_project |-> "projects", delete_project |-> "projects",
     add_user |-> "users", get_user |-> "users", put_user |-> "users",
     patch_user |-> "users", delete_user |-> "users"]

Creates == {"create_course", "create_project", "create_user_project", "add_user"}
Updates == {"put_course", "patch_course", "put_project", "patch_project",
            "put_user", "patch_user"}
Deletes == {"delete_course", "delete_project", "delete_user"}

\* get_db without its finally clause.
get_db_exit_Leak(sessions, r) == sessions

\* get_db: a session per request, closed in the finally clause.
get_db_enter(sessions, r) == sessions \cup {r}
get_db_exit(sessions, r) == sessions \ {r}

InFlight(r) == pc[r] \in {"commit_or_rollback", "db_commit", "refresh"}

\* The server hands request o to the first free slot.
Accept(r, o) ==
    /\ ~InFlight(r)
    /\ \A q \in Req : q < r => InFlight(q)
    /\ o \in Sections[workload]

\* Room for the row a create will insert (the model's id range).
HasRoom(r, t) ==
    NextId(t) + Cardinality({q \in Req \ {r} : /\ InFlight(q)
                                               /\ pc[q] = "commit_or_rollback"
                                               /\ op[q] \in Creates
                                               /\ TableOf[op[q]] = t})
        <= MaxRows[t]

\* The handler has done its lookups and goes on to the store call `next`.
Proceed(r, o, id, body, obj, next) ==
    /\ pc' = [pc EXCEPT ![r] = next]
    /\ op' = [op EXCEPT ![r] = o]
    /\ target' = [target EXCEPT ![r] = id]
    /\ payload' = [payload EXCEPT ![r] = body]
    /\ assigned' = [assigned EXCEPT ![r] = obj]
    /\ status' = [status EXCEPT ![r] = 0]
    /\ detail' = [detail EXCEPT ![r] = ""]
    /\ open' = get_db_enter(open, r)
    /\ UNCHANGED <<workload, db>>

\* The handler returns or raises right after its lookups.
Answer(r, o, id, code, msg) ==
    /\ pc' = [pc EXCEPT ![r] = "done"]
    /\ op' = [op EXCEPT ![r] = o]
    /\ target' = [target EXCEPT ![r] = id]
    /\ payload' = [payload EXCEPT ![r] = NoFields]
    /\ assigned' = [assigned EXCEPT ![r] = NoFields]
    /\ status' = [status EXCEPT ![r] = code]
    /\ detail' = [detail EXCEPT ![r] = msg]
    /\ open' = get_db_exit(get_db_enter(open, r), r)
    /\ UNCHANGED <<workload, db>>

\* The response of a handler that is past its lookups.
Finish(r, code, msg) ==
    /\ pc' = [pc EXCEPT ![r] = "done"]
    /\ status' = [status EXCEPT ![r] = code]
    /\ detail' = [detail EXCEPT ![r] = msg]
    /\ open' = get_db_exit(open, r)
    /\ payload' = [payload EXCEPT ![r] = NoFields]
    /\ assigned' = [assigned EXCEPT ![r] = NoFields]
    /\ UNCHANGED <<workload, op>>

\* ------------------------------------------------------------ courses
create_course(r) ==
    \E course \in CourseCreate :
        /\ Accept(r, "create_course")
        /\ HasRoom(r, "courses")
        /\ Proceed(r, "create_course", 0, course, course, "commit_or_rollback")

get_course(r) ==
    \E course_id \in CourseIds :
        /\ Accept(r, "get_course")
        /\ IF course_id \notin DOMAIN db.courses
           THEN Answer(r, "get_course", course_id, 404, "Course not found")
           ELSE Answer(r, "get_course", course_id, 200, "")

put_course(r) ==
    \E course_id \in CourseIds :
        /\ Accept(r, "put_course")
        /\ IF course_id \notin DOMAIN db.courses
           THEN Answer(r, "put_course", course_id, 404, "Course not found")
           ELSE \E body \in CourseUpdatePUT :
                    Proceed(r, "put_course", course_id, body,
                        [code |-> body.code, name |-> body.name,
                         credits |-> body.credits],
                        "commit_or_rollback")

\* patch_course dumping the payload without exclude_unset: the omitted fields
\* are assigned too.
patch_course_AllFields(r) ==
    \E course_id \in CourseIds, body \in CourseUpdatePATCH, dumped \in CourseCreate :
        /\ \A f \in DOMAIN body : dumped[f] = body[f]
        /\ Accept(r, "patch_course")
        /\ IF course_id \notin DOMAIN db.courses
           THEN Answer(r, "patch_course", course_id, 404, "Course not found")
           ELSE Proceed(r, "patch_course", course_id, body, dumped,
                        "commit_or_rollback")

patch_course(r) ==
    \E course_id \in CourseIds :
        /\ Accept(r, "patch_course")
        /\ IF course_id \notin DOMAIN db.courses
           THEN Answer(r, "patch_course", course_id, 404, "Course not found")
           ELSE \E body \in CourseUpdatePATCH :
                    Proceed(r, "patch_course", course_id, body, body,
                            "commit_or_rollback")

delete_course(r) ==
    \E course_id \in CourseIds :
        /\ Accept(r, "delete_course")
        /\ IF course_id \notin DOMAIN db.courses
           THEN Answer(r, "delete_course", course_id, 404, "Course not found")
           ELSE Proceed(r, "delete_course", course_id, NoFields, NoFields, "db_commit")

\* ------------------------------------------------------------ projects
\* create_project without the owner lookup.
create_project_NoOwnerCheck(r) ==
    \E project \in ProjectCreate :
        /\ Accept(r, "create_project")
        /\ HasRoom(r, "projects")
        /\ Proceed(r, "create_project", 0, project, project,
                        "commit_or_rollback")

create_project(r) ==
    \E project \in ProjectCreate :
        /\ Accept(r, "create_project")
        /\ HasRoom(r, "projects")
        /\ IF project.owner_id \notin DOMAIN db.users
           THEN Answer(r, "create_project", 0, 404, "User not found")
           ELSE Proceed(r, "create_project", 0, project, project,
                        "commit_or_rollback")

get_project_owner(r) ==
    \E project_id \in ProjectIds :
        /\ Accept(r, "get_project_owner")
        /\ IF project_id \notin DOMAIN db.projects
           THEN Answer(r, "get_project_owner", project_id, 404, "Project not found")
           ELSE Answer(r, "get_project_owner", project_id, 200, "")

put_project(r) ==
    \E project_id \in ProjectIds, body \in ProjectUpdatePUT :
        /\ Accept(r, "put_project")
        /\ IF project_id \notin DOMAIN db.projects
           THEN Answer(r, "put_project", project_id, 404, "Project not found")
           ELSE IF /\ body.owner_id # db.projects[project_id].owner_id
                   /\ body.owner_id \notin DOMAIN db.users
           THEN Answer(r, "put_project", project_id, 404, "Owner not found")
           ELSE Proceed(r, "put_project", project_id, body,
                        [name |-> body.name, description |-> body.description,
                         owner_id |-> body.owner_id],
                        "commit_or_rollback")

\* patch_project checking the owner the way put_project does: only when the
\* supplied owner_id differs from the current one.
patch_project_CheckIfChanged(r) ==
    \E project_id \in ProjectIds, data \in ProjectUpdatePATCH :
        /\ Accept(r, "patch_project")
        /\ IF project_id \notin DOMAIN db.projects
           THEN Answer(r, "patch_project", project_id, 404, "Project not found")
           ELSE IF /\ "owner_id" \in DOMAIN data
                   /\ data.owner_id # db.projects[project_id].owner_id
                   /\ data.owner_id \notin DOMAIN db.users
           THEN Answer(r, "patch_project", project_id, 404, "Owner not found")
           ELSE Proceed(r, "patch_project", project_id, data, data,
                        "commit_or_rollback")

patch_project(r) ==
    \E project_id \in ProjectIds, data \in ProjectUpdatePATCH :
        /\ Accept(r, "patch_project")
        /\ IF project_id \notin DOMAIN db.projects
           THEN Answer(r, "patch_project", project_id, 404, "Project not found")
           ELSE IF /\ "owner_id" \in DOMAIN data
                   /\ data.owner_id \notin DOMAIN db.users
           THEN Answer(r, "patch_project", project_id, 404, "Owner not found")
           ELSE Proceed(r, "patch_project", project_id, data, data,
                        "commit_or_rollback")

delete_project(r) ==
    \E project_id \in ProjectIds :
        /\ Accept(r, "delete_project")
        /\ IF project_id \notin DOMAIN db.projects
           THEN Answer(r, "delete_project", project_id, 404, "Project not found")
           ELSE Proceed(r, "delete_project", project_id, NoFields, NoFields,
                        "db_commit")

create_user_project(r) ==
    \E user_id \in UserIds, project \in ProjectCreateForUser :
        /\ Accept(r, "create_user_project")
        /\ HasRoom(r, "projects")
        /\ IF user_id \notin DOMAIN db.users
           THEN Answer(r, "create_user_project", 0, 404, "User not found")
           ELSE Proceed(r, "create_user_project", 0, project,
                        [name |-> project.name, description |-> project.description,
                         owner_id |-> user_id],
                        "commit_or_rollback")

\* ------------------------------------------------------------ users
get_user(r) ==
    \E user_id \in UserIds :
        /\ Accept(r, "get_user")
        /\ IF user_id \notin DOMAIN db.users
           THEN Answer(r, "get_user", user_id, 404, "User not found")
           ELSE Answer(r, "get_user", user_id, 200, "")

add_user(r) ==
    \E body \in UserCreate :
        /\ Accept(r, "add_user")
        /\ HasRoom(r, "users")
        /\ Proceed(r, "add_user", 0, body, body, "commit_or_rollback")

delete_user(r) ==
    \E user_id \in UserIds :
        /\ Accept(r, "delete_user")
        /\ IF user_id \notin DOMAIN db.users
           THEN Answer(r, "delete_user", user_id, 404, "User not found")
           ELSE Proceed(r, "delete_user", user_id, NoFields, NoFields, "db_commit")

put_user(r) ==
    \E user_id \in UserIds :
        /\ Accept(r, "put_user")
        /\ IF user_id \notin DOMAIN db.users
           THEN Answer(r, "put_user", user_id, 404, "User not found")
           ELSE \E body \in UserUpdatePUT :
                    Proceed(r, "put_user", user_id, body,
                        [name |-> body.name, email |-> body.email, age |-> body.age,
                         student_id |-> body.student_id],
                        "commit_or_rollback")

patch_user(r) ==
    \E user_id \in UserIds :
        /\ Accept(r, "patch_user")
        /\ IF user_id \notin DOMAIN db.users
           THEN Answer(r, "patch_user", user_id, 404, "User not found")
           ELSE \E body \in UserUpdatePATCH :
                    Proceed(r, "patch_user", user_id, body, body,
                            "commit_or_rollback")

\* ------------------------------------------------------------ store calls
ErrorMsg ==
    [create_course |-> "Course already exists",
     put_course |-> "Course update failed",
     patch_course |-> "Course update failed",
     create_project |-> "Project creation failed",
     create_user_project |-> "Project creation failed",
     put_project |-> "Project update failed",
     patch_project |-> "Project update failed",
     add_user |-> "User already exists",
     put_user |-> "User update failed",
     patch_user |-> "User update failed"]

\* commit_or_rollback letting IntegrityError through.
ConflictStatus_Unhandled == 400 + 100

\* HTTPException(status_code=409, detail=error_msg)
ConflictStatus == 409

\* commit_or_rollback without db.rollback().
rollback_Skipped(committed, pending) == pending

\* Session.rollback: the store keeps the committed rows, the pending ones go.
rollback(committed, pending) == committed

\* db.commit() went through: the handler goes on to db.refresh(row), the row
\* now carrying the id the store gave it.
Committed(r, id) ==
    /\ pc' = [pc EXCEPT ![r] = "refresh"]
    /\ target' = [target EXCEPT ![r] = id]
    /\ payload' = [payload EXCEPT ![r] = NoFields]
    /\ assigned' = [assigned EXCEPT ![r] = NoFields]
    /\ UNCHANGED <<workload, open, op, status, detail>>

\* commit_or_rollback(db, error_msg) and the handler's reaction to it.  The
\* flush writes the pending object: an INSERT of the new row, or an UPDATE of
\* the assigned columns of the row with the path's id.  IntegrityError becomes
\* 409 after a rollback; an UPDATE that finds its row gone is another store
\* error and propagates (500); success goes on to db.refresh(row).
commit_or_rollback(r) ==
    LET t == TableOf[op[r]]
        id == IF op[r] \in Creates THEN NextId(t) ELSE target[r]
        v == assigned[r]
        pending == IF op[r] \in Creates THEN Insert(t, id, v)
                   ELSE Update(t, id, v, DOMAIN v)
    IN  /\ pc[r] = "commit_or_rollback"
        /\ IF DOMAIN v = {}
           THEN /\ Committed(r, id)
                /\ UNCHANGED db
           ELSE IF op[r] \in Updates /\ id \notin DOMAIN db[t]
           THEN /\ Finish(r, 500, "Internal Server Error")
                /\ UNCHANGED <<db, target>>
           ELSE IF Duplicate(t, id, v, DOMAIN v)
           THEN /\ db' = rollback(db, pending)
                /\ Finish(r, ConflictStatus, ErrorMsg[op[r]])
                /\ UNCHANGED target
           ELSE /\ db' = pending
                /\ Committed(r, id)

SuccessCode(o) == IF o \in Creates THEN 201 ELSE 200

\* db.refresh(row); return row
refresh(r) ==
    /\ pc[r] = "refresh"
    /\ IF target[r] \in DOMAIN db[TableOf[op[r]]]
       THEN Finish(r, SuccessCode(op[r]), "")
       ELSE Finish(r, 500, "Internal Server Error")
    /\ UNCHANGED <<db, target>>

\* A delete handler that commits without db.delete(row).
db_commit_NoDelete(r) ==
    /\ pc[r] = "db_commit"
    /\ Finish(r, 204, "")
    /\ UNCHANGED <<db, target>>

\* A delete handler that deletes the projects of a deleted user with it.
db_commit_Cascade(r) ==
    /\ pc[r] = "db_commit"
    /\ db' = [Delete(TableOf[op[r]], target[r]) EXCEPT
                 !.projects = [i \in {j \in DOMAIN @ : op[r] = "delete_user"
                                         => @[j].owner_id # target[r]} |-> @[i]]]
    /\ Finish(r, 204, "")
    /\ UNCHANGED target

\* db.delete(row); db.commit(); return Response(status_code=204)
db_commit(r) ==
    /\ pc[r] = "db_commit"
    /\ db' = Delete(TableOf[op[r]], target[r])
    /\ Finish(r, 204, "")
    /\ UNCHANGED target

\* ---------------------------------------------------------------- system
Init ==
    /\ workload \in DOMAIN Sections
    /\ db = [t \in Tables |-> NoFields]
    /\ open = {}
    /\ pc = [r \in Req |-> "idle"]
    /\ op = [r \in Req |-> "none"]
    /\ target = [r \in Req |-> 0]
    /\ payload = [r \in Req |-> NoFields]
    /\ assigned = [r \in Req |-> NoFields]
    /\ status = [r \in Req |-> 0]
    /\ detail = [r \in Req |-> ""]

Next ==
    \E r \in Req :
        \/ create_course(r)
        \/ get_course(r)
        \/ put_course(r)
        \/ patch_course(r)
        \/ delete_course(r)
        \/ create_project(r)
        \/ get_project_owner(r)
        \/ put_project(r)
        \/ patch_project(r)
        \/ delete_project(r)
        \/ create_user_project(r)
        \/ get_user(r)
        \/ add_user(r)
        \/ delete_user(r)
        \/ put_user(r)
        \/ patch_user(r)
        \/ commit_or_rollback(r)
        \/ refresh(r)
        \/ db_commit(r)

Spec == Init /\ [][Next]_vars

\* ---------------------------------------------------------------- properties
\* Request r takes the step.
Steps(r) ==
    <<pc[r], op[r], target[r], payload[r], assigned[r], status[r], detail[r]>>
        # <<pc'[r], op'[r], target'[r], payload'[r], assigned'[r], status'[r],
            detail'[r]>>

\* r's handler starts and does its lookups.
LookupStep(r) == ~InFlight(r) /\ Steps(r)

\* r's handler calls commit_or_rollback.
CommitStep(r) == pc[r] = "commit_or_rollback" /\ Steps(r)

\* Some committed row of table t holds the value v has in a unique column.
KeyTaken(t, v) ==
    \E i \in DOMAIN db[t] : \E c \in UniqueCols[t] : db[t][i][c] = v[c]

\* Table t after the step is table t before it plus the row v under a new id.
Added(t, id, v) ==
    /\ id \notin DOMAIN db[t]
    /\ DOMAIN db'[t] = DOMAIN db[t] \cup {id}
    /\ db'[t][id] = v
    /\ \A i \in DOMAIN db[t] : db'[t][i] = db[t][i]
    /\ \A u \in Tables \ {t} : db'[u] = db[u]

\* C1: of two racing create_course or add_user requests with the same unique
\* key exactly one wins: the store never holds two rows with one key, the
\* create that commits while a row with its key is committed (its rival's,
\* still in flight, included) is answered 409 and inserts nothing, the create
\* that commits first inserts its row and is answered 201 while the row stays.
C1_UniqueKeys ==
    \A t \in Tables : \A i, j \in DOMAIN db[t] :
        i # j => \A c \in UniqueCols[t] : db[t][i][c] # db[t][j][c]

C1_CreateCommit ==
    \A r \in Req :
        CommitStep(r) /\ op[r] \in {"create_course", "add_user"} =>
            IF KeyTaken(TableOf[op[r]], payload[r])
            THEN /\ status'[r] = 409
                 /\ pc'[r] = "done"
                 /\ db' = db
            ELSE /\ pc'[r] = "refresh"
                 /\ status'[r] = 0
                 /\ Added(TableOf[op[r]], target'[r], payload[r])

C1_CreateAnswer ==
    \A r \in Req :
        /\ pc[r] = "refresh"
        /\ op[r] \in {"create_course", "add_user"}
        /\ Steps(r)
        /\ target[r] \in DOMAIN db[TableOf[op[r]]]
        => status'[r] = 201 /\ db' = db

C1_RaceHasOneWinner ==
    /\ []C1_UniqueKeys
    /\ [][C1_CreateCommit /\ C1_CreateAnswer]_vars

\* Two create_course requests raced: the first committed its row and is still
\* in flight, the second was answered 409 against that row.
C1_Witness ==
    /\ op[1] = "create_course" /\ pc[1] = "refresh"
    /\ op[2] = "create_course" /\ status[2] = 409
    /\ detail[2] = "Course already exists"
    /\ DOMAIN db.courses = {target[1]}

\* C2: a create, PUT or PATCH on a Course or User that is answered 409 leaves
\* the store exactly as it was: no row added, no field of the targeted row
\* changed; and it is answered 409 only when the write would duplicate a
\* unique column of another row.
C2_ConflictStep(r) ==
    /\ Steps(r)
    /\ status[r] # 409
    /\ status'[r] = 409
    /\ TableOf[op'[r]] \in {"courses", "users"}

C2_ConflictDiscardsWrite ==
    [][\A r \in Req :
          C2_ConflictStep(r) =>
              /\ db' = db
              /\ pc[r] = "commit_or_rollback"
              /\ \E i \in DOMAIN db[TableOf[op[r]]] :
                    /\ op[r] \in Updates => i # target[r]
                    /\ \E c \in UniqueCols[TableOf[op[r]]] \cap DOMAIN payload[r] :
                          db[TableOf[op[r]]][i][c] = payload[r][c]]_vars

\* A PUT of a Course was refused for its code while two courses exist.
C2_Witness ==
    \E r \in Req :
        /\ op[r] = "put_course"
        /\ status[r] = 409
        /\ detail[r] = "Course update failed"
        /\ DOMAIN db.courses = {1, 2}

\* C3 (as claimed): whenever a project create, or a project update that
\* changes owner_id, is committed, a User with that owner id exists at that
\* moment.
C3_OwnerExistsAtCommit ==
    [][\A r \in Req :
          /\ CommitStep(r)
          /\ pc'[r] = "refresh"
          /\ TableOf[op[r]] = "projects"
          /\ "owner_id" \in DOMAIN assigned[r]
          /\ \/ op[r] \in Creates
             \/ /\ target[r] \in DOMAIN db.projects
                /\ db.projects[target[r]].owner_id # assigned[r].owner_id
          => assigned[r].owner_id \in DOMAIN db.users]_vars

\* C4 (as claimed): every handler that commits a change does so through
\* commit_or_rollback, the delete handlers included.
C4_EveryCommitIsConflictSafe ==
    \A r \in Req : InFlight(r) /\ pc[r] # "refresh" => pc[r] = "commit_or_rollback"

\* C5: DELETE of an id with no row is answered 404 and changes nothing; the
\* commit of a DELETE is answered 204 and leaves no row with that id; GET or
\* DELETE of an id with no row is answered 404; and an id without a row gets
\* one only by the commit of a create that is given that id.
C5_Lookups == {"get_course", "get_user", "get_project_owner"} \cup Deletes

C5_AbsentIs404 ==
    \A r \in Req :
        LookupStep(r) /\ op'[r] \in C5_Lookups =>
            /\ db' = db
            /\ IF target'[r] \in DOMAIN db[TableOf[op'[r]]]
               THEN status'[r] = (IF op'[r] \in Deletes THEN 0 ELSE 200)
               ELSE /\ status'[r] = 404
                    /\ pc'[r] = "done"

C5_DeleteRemoves ==
    \A r \in Req :
        InFlight(r) /\ op[r] \in Deletes /\ Steps(r) =>
            /\ status'[r] = 204
            /\ pc'[r] = "done"
            /\ target[r] \notin DOMAIN db'[TableOf[op[r]]]
            /\ \A i \in DOMAIN db[TableOf[op[r]]] \ {target[r]} :
                  /\ i \in DOMAIN db'[TableOf[op[r]]]
                  /\ db'[TableOf[op[r]]][i] = db[TableOf[op[r]]][i]

C5_OnlyCreateRevives ==
    \A t \in Tables : \A i \in DOMAIN db'[t] \ DOMAIN db[t] :
        \E r \in Req : CommitStep(r) /\ op[r] \in Creates /\ TableOf[op[r]] = t
                       /\ target'[r] = i

C5_DeleteThen404 ==
    [][C5_AbsentIs404 /\ C5_DeleteRemoves /\ C5_OnlyCreateRevives]_vars

\* Course 1 was deleted (204) while course 2 stays, and a GET of course 1 got
\* 404.
C5_Witness ==
    /\ op[2] = "delete_course" /\ status[2] = 204 /\ target[2] = 1
    /\ op[1] = "get_course" /\ status[1] = 404 /\ target[1] = 1
    /\ DOMAIN db.courses = {2}

\* C6: create_project and create_user_project either find their owner among
\* the users and go on to the commit, or are answered 404 "User not found"
\* at once with every table, the projects included, left as it was.
C6_NoOwnerNoProject ==
    [][\A r \in Req :
          LookupStep(r) /\ op'[r] \in {"create_project", "create_user_project"} =>
              /\ db' = db
              /\ \/ /\ pc'[r] = "commit_or_rollback"
                    /\ assigned'[r].owner_id \in DOMAIN db.users
                 \/ /\ pc'[r] = "done"
                    /\ status'[r] = 404
                    /\ detail'[r] = "User not found"
                    /\ UserIds \ DOMAIN db.users # {}]_vars

\* create_project was refused for its owner while another user exists.
C6_Witness ==
    \E r \in Req :
        /\ op[r] = "create_project"
        /\ status[r] = 404
        /\ detail[r] = "User not found"
        /\ DOMAIN db.users # {}
        /\ DOMAIN db.projects = {}

\* C7: the commit of a PATCH sets each field of the payload to the supplied
\* value, keeps every other field of the row, the row's id, every other row
\* and every other table; with an empty payload it changes nothing; the
\* other steps of a PATCH change nothing, and its answer is 200 when the row
\* is still there.
C7_Patches == {"patch_course", "patch_user", "patch_project"}

C7_PatchCommit ==
    \A r \in Req :
        CommitStep(r) /\ op[r] \in C7_Patches /\ pc'[r] = "refresh" =>
            LET t == TableOf[op[r]]
                id == target[r]
            IN  /\ target'[r] = id
                /\ DOMAIN db'[t] = DOMAIN db[t]
                /\ \A u \in Tables \ {t} : db'[u] = db[u]
                /\ \A i \in DOMAIN db[t] \ {id} : db'[t][i] = db[t][i]
                /\ payload[r] = NoFields => db' = db
                /\ id \in DOMAIN db[t] =>
                      /\ DOMAIN db'[t][id] = DOMAIN db[t][id]
                      /\ \A f \in DOMAIN db[t][id] :
                            db'[t][id][f] = IF f \in DOMAIN payload[r]
                                            THEN payload[r][f]
                                            ELSE db[t][id][f]

C7_PatchOther ==
    \A r \in Req :
        /\ Steps(r)
        /\ (IF InFlight(r) THEN op[r] ELSE op'[r]) \in C7_Patches
        /\ ~CommitStep(r)
        => /\ db' = db
           /\ pc[r] = "refresh" /\ target[r] \in DOMAIN db[TableOf[op[r]]]
                 => status'[r] = 200

C8_DeleteUserKeepsProjects ==
    [][\A r \in Req :
          pc[r] = "db_commit" /\ op[r] = "delete_user" /\ Steps(r) =>
              /\ status'[r] = 204
              /\ db'.projects = db.projects
              /\ db'.courses = db.courses
              /\ DOMAIN db'.users = DOMAIN db.users \ {target[r]}
              /\ \A i \in DOMAIN db'.users : db'.users[i] = db.users[i]]_vars

\* delete_user was answered 204 and the project of the deleted user is still
\* there.
C8_Witness ==
    \E r \in Req :
        /\ op[r] = "delete_user"
        /\ status[r] = 204
        /\ 1 \in DOMAIN db.projects
        /\ db.projects[1].owner_id = target[r]
        /\ target[r] \notin DOMAIN db.users

\* C9: patch_project goes on to the commit only if the owner_id it was sent,
\* if any, names an existing user, be it the current owner or not;
\* put_project only if its owner_id is the current one or names an existing
\* user; otherwise they are answered 404 "Owner not found" with the store
\* left as it was.
C9_OwnerCheck ==
    [][\A r \in Req :
          LookupStep(r) /\ op'[r] \in {"put_project", "patch_project"} =>
              /\ db' = db
              /\ \/ /\ pc'[r] = "commit_or_rollback"
                    /\ target'[r] \in DOMAIN db.projects
                    /\ "owner_id" \in DOMAIN payload'[r] =>
                          \/ payload'[r].owner_id \in DOMAIN db.users
                          \/ /\ op'[r] = "put_project"
                             /\ payload'[r].owner_id
                                    = db.projects[target'[r]].owner_id
                 \/ /\ pc'[r] = "done"
                    /\ status'[r] = 404
                    /\ detail'[r] = "Project not found"
                    /\ target'[r] \notin DOMAIN db.projects
                 \/ /\ pc'[r] = "done"
                    /\ status'[r] = 404
                    /\ detail'[r] = "Owner not found"
                    /\ target'[r] \in DOMAIN db.projects
                    /\ UserIds \ DOMAIN db.users # {}]_vars

\* An update of a project was answered 404 "Owner not found" while the
\* project's own owner is gone: only patch_project refuses the current owner.
C9_Witness ==
    \E r \in Req :
        /\ op[r] = "patch_project"
        /\ status[r] = 404
        /\ detail[r] = "Owner not found"
        /\ 1 \in DOMAIN db.projects
        /\ DOMAIN db.users = UserIds \ {db.projects[1].owner_id}

\* C10: a session is open exactly while its request is in flight, whatever
\* the way the request ended; with no request in flight no session is open.
C10_SessionsClosed ==
    /\ open = {r \in Req : InFlight(r)}
    /\ (\A r \in Req : ~InFlight(r)) => open = {}

\* A request ended in an unhandled store error and its session is closed.
C10_Witness ==
    \E r \in Req :
        /\ status[r] = 500
        /\ pc[r] = "done"
        /\ r \notin open

====
